---- MODULE Spec2Model ----
(***************************************************************************)
(* The document catalog page: script.js reads the `files` array of         *)
(* data.js, groups the records by category, sorts every group newest       *)
(* first, renders the groups into #app and re-renders on a debounced       *)
(* search input.                                                           *)
(*                                                                         *)
(* A JavaScript string is a sequence of one-character strings.  A          *)
(* JavaScript Number is a record [isNaN, val], so that NaN is a value the  *)
(* arithmetic can produce and propagate.                                   *)
(***************************************************************************)
EXTENDS Integers, Sequences, FiniteSets, TLC

VARIABLES
    files,          \* data.js: the `files` array
    hasApp,         \* document.getElementById("app") is an element
    hasSearch,      \* document.getElementById("search") is an element
    readyState,     \* document.readyState
    scriptRan,      \* the IIFE of script.js has been evaluated
    domListener,    \* init is registered for DOMContentLoaded
    initCount,      \* number of calls of init()
    searchBound,    \* the "input" listener is attached
    threw,          \* a call of renderAll ended in a TypeError
    now,            \* milliseconds since bootstrap finished
    timers,         \* due times of the pending setTimeout callbacks
    debounceTimer,  \* initSearch's `debounceTimer`: a due time, or None
    inputValue,     \* input.value
    inputTimes,     \* times of the "input" events, in order
    renderTimes,    \* times at which a timer callback ran
    renderCount,    \* number of calls of renderAll
    firstList,      \* the argument of the first call of renderAll
    lastSource,     \* who made the last call of renderAll
    lastValue,      \* input.value read by the last timer callback
    lastQuery,      \* the argument of the last call of filterFiles
    lastList,       \* the argument of the last call of renderAll
    grouped,        \* renderAll's `grouped`, as a sequence of [name, entries]
    appHtml,        \* the string last assigned to app.innerHTML
    cards,          \* the .card elements inside #app, in document order
    rafPending      \* number of pending requestAnimationFrame callbacks

vars ==
    <<files, hasApp, hasSearch, readyState, scriptRan, domListener, initCount,
      searchBound, threw, now, timers, debounceTimer, inputValue, inputTimes,
      renderTimes, renderCount, firstList, lastSource, lastValue, lastQuery,
      lastList, grouped, appHtml, cards, rafPending>>

(***************************************************************************)
(* Bounds of the model.                                                    *)
(***************************************************************************)
MaxLen == 3
\* longest record list of the function-level specification

MaxStore == 2
\* longest `files` array of the page-level specification

MaxInputs == 3
\* number of "input" events of one run

MaxTicks == 5
\* length of one run, in clock steps

(***************************************************************************)
(* Strings.                                                                *)
(***************************************************************************)
LowerLetters ==
    <<"a", "b", "c", "d", "e", "f", "g", "h", "i", "j", "k", "l", "m",
      "n", "o", "p", "q", "r", "s", "t", "u", "v", "w", "x", "y", "z">>

UpperLetters ==
    <<"A", "B", "C", "D", "E", "F", "G", "H", "I", "J", "K", "L", "M",
      "N", "O", "P", "Q", "R", "S", "T", "U", "V", "W", "X", "Y", "Z">>

DigitChars ==
    <<"0", "1", "2", "3", "4", "5", "6", "7", "8", "9">>

IndexOf(c, seq) ==
    IF \E i \in 1..Len(seq) : seq[i] = c
    THEN CHOOSE i \in 1..Len(seq) : seq[i] = c
    ELSE 0

toLowerChar(c) ==
    LET i == IndexOf(c, UpperLetters) IN IF i > 0 THEN LowerLetters[i] ELSE c

\* String.prototype.toLowerCase
toLowerCase(s) ==
    [i \in 1..Len(s) |-> toLowerChar(s[i])]

\* String.prototype.includes
includes(s, q) ==
    \E i \in 1..(Len(s) - Len(q) + 1) : SubSeq(s, i, i + Len(q) - 1) = q

IsWhiteSpace(c) ==
    c \in {" ", "\t", "\n"}

RECURSIVE trimStart(_)
trimStart(s) ==
    IF s # <<>> /\ IsWhiteSpace(Head(s)) THEN trimStart(Tail(s)) ELSE s

RECURSIVE trimEnd(_)
trimEnd(s) ==
    IF s # <<>> /\ IsWhiteSpace(s[Len(s)])
    THEN trimEnd(SubSeq(s, 1, Len(s) - 1))
    ELSE s

trim_None(s) ==
    s

\* String.prototype.trim
trim(s) ==
    trimEnd(trimStart(s))

\* String.prototype.replace with a global one-character pattern
RECURSIVE replaceAll(_, _, _)
replaceAll(s, c, r) ==
    IF s = <<>>
    THEN <<>>
    ELSE (IF Head(s) = c THEN r ELSE <<Head(s)>>) \o replaceAll(Tail(s), c, r)

AmpEntity ==
    <<"&", "a", "m", "p", ";">>

LtEntity ==
    <<"&", "l", "t", ";">>

GtEntity ==
    <<"&", "g", "t", ";">>

QuotEntity ==
    <<"&", "q", "u", "o", "t", ";">>

escHtml_NoLt(s) ==
    replaceAll(replaceAll(replaceAll(s, "&", AmpEntity), ">", GtEntity),
               "\"", QuotEntity)

escHtml(s) ==
    replaceAll(replaceAll(replaceAll(replaceAll(s, "&", AmpEntity),
                                     "<", LtEntity),
                          ">", GtEntity),
               "\"", QuotEntity)

(***************************************************************************)
(* Numbers and dates.                                                      *)
(***************************************************************************)
Num(n) ==
    [isNaN |-> FALSE, val |-> n]

NaN ==
    [isNaN |-> TRUE, val |-> 0]

Minus(x, y) ==
    IF x.isNaN \/ y.isNaN THEN NaN ELSE Num(x.val - y.val)

IsDigit(c) ==
    IndexOf(c, DigitChars) > 0

DigitVal(c) ==
    IndexOf(c, DigitChars) - 1

IsLeap(y) ==
    (y % 4 = 0 /\ y % 100 # 0) \/ y % 400 = 0

DaysInMonth(y, m) ==
    IF m = 2 THEN (IF IsLeap(y) THEN 29 ELSE 28)
    ELSE IF m \in {4, 6, 9, 11} THEN 30 ELSE 31

MakeDate(y, m, d) ==
    IF m \in 1..12 /\ d \in 1..DaysInMonth(y, m)
    THEN [valid |-> TRUE, y |-> y, m |-> m, d |-> d]
    ELSE [valid |-> FALSE, y |-> 0, m |-> 0, d |-> 0]

\* The Date constructor on a date-only ISO string "YYYY-MM-DD": the calendar
\* date, or an invalid Date.  Every other text of the model's record pool is
\* no date format at all and parses to an invalid Date.  (A day between the
\* month's length and 31 is engine-dependent and is kept out of the pool.)
ParseDate(str) ==
    IF /\ Len(str) = 10
       /\ str[5] = "-"
       /\ str[8] = "-"
       /\ \A i \in {1, 2, 3, 4, 6, 7, 9, 10} : IsDigit(str[i])
    THEN MakeDate(1000 * DigitVal(str[1]) + 100 * DigitVal(str[2])
                  + 10 * DigitVal(str[3]) + DigitVal(str[4]),
                  10 * DigitVal(str[6]) + DigitVal(str[7]),
                  10 * DigitVal(str[9]) + DigitVal(str[10]))
    ELSE [valid |-> FALSE, y |-> 0, m |-> 0, d |-> 0]

DayOfEra(yoe, doy) ==
    yoe * 365 + yoe \div 4 - yoe \div 100 + doy

DaysFromEra(yy, mp, d) ==
    (yy \div 400) * 146097
    + DayOfEra(yy % 400, (153 * mp + 2) \div 5 + d - 1) - 719468

\* Days from 1970-01-01 to the civil date y-m-d (years from 0 on).
EpochDay(y, m, d) ==
    DaysFromEra(IF m <= 2 THEN y - 1 ELSE y, IF m > 2 THEN m - 3 ELSE m + 9, d)

TimeOf(p) ==
    IF p.valid THEN Num(EpochDay(p.y, p.m, p.d)) ELSE NaN

\* new Date(str).getTime(), in whole days: a date-only string is UTC
\* midnight, so the time value is an exact multiple of 86400000 ms and the
\* factor is dropped (it keeps every difference's sign).
dateValue(str) ==
    TimeOf(ParseDate(str))

MonthShort ==
    << <<"J", "a", "n">>, <<"F", "e", "b">>, <<"M", "a", "r">>,
       <<"A", "p", "r">>, <<"M", "a", "y">>, <<"J", "u", "n">>,
       <<"J", "u", "l">>, <<"A", "u", "g">>, <<"S", "e", "p">>,
       <<"O", "c", "t">>, <<"N", "o", "v">>, <<"D", "e", "c">> >>

InvalidDateText ==
    <<"I", "n", "v", "a", "l", "i", "d", " ", "D", "a", "t", "e">>

RECURSIVE DecimalText(_)
DecimalText(n) ==
    IF n < 10
    THEN <<DigitChars[n + 1]>>
    ELSE DecimalText(n \div 10) \o <<DigitChars[(n % 10) + 1]>>

ShortDate(p) ==
    IF p.valid
    THEN MonthShort[p.m] \o <<" ">> \o DecimalText(p.d) \o <<",", " ">>
         \o DecimalText(p.y)
    ELSE InvalidDateText

\* new Date(str + "T00:00:00").toLocaleDateString("en-US", {year: "numeric",
\* month: "short", day: "numeric"}): local midnight of the same calendar day;
\* an invalid Date formats as the text "Invalid Date".
formatDate(str) ==
    ShortDate(ParseDate(str))

(***************************************************************************)
(* Sorting and grouping.                                                   *)
(***************************************************************************)
\* The comparator of line 53: dateValue(b.updated) - dateValue(a.updated).
compareUpdated(a, b) ==
    Minus(dateValue(b.updated), dateValue(a.updated))

NaNToZero(v) ==
    IF v.isNaN THEN 0 ELSE v.val

\* Array.prototype.sort's SortCompare: a NaN result of the comparator is +0.
SortCompare(a, b) ==
    NaNToZero(compareUpdated(a, b))

Sign(n) ==
    IF n < 0 THEN 0 - 1 ELSE IF n > 0 THEN 1 ELSE 0

IsConsistent(S, c) ==
    /\ \A a \in S : c[a, a] = 0
    /\ \A a, b \in S : c[a, b] = 0 - c[b, a]
    /\ \A a, b, x \in S :
          /\ (c[a, b] = 0 /\ c[b, x] = 0) => c[a, x] = 0
          /\ (c[a, b] < 0 /\ c[b, x] < 0) => c[a, x] < 0
          /\ (c[a, b] > 0 /\ c[b, x] > 0) => c[a, x] > 0

SignsOver(S) ==
    [a \in S, b \in S |-> Sign(SortCompare(a, b))]

Elements(s) ==
    {s[i] : i \in 1..Len(s)}

\* ECMAScript's "consistent comparator" for the values of one array: only
\* then is the sort order defined (and stable).
ConsistentComparator(entries) ==
    IsConsistent(Elements(entries), SignsOver(Elements(entries)))

RECURSIVE insertByDate(_, _)
insertByDate(sorted, x) ==
    IF sorted = <<>>
    THEN <<x>>
    ELSE IF SortCompare(Head(sorted), x) > 0
         THEN <<x>> \o sorted
         ELSE <<Head(sorted)>> \o insertByDate(Tail(sorted), x)

\* A stable sort under the comparator of line 53.
RECURSIVE stableSortByDate(_)
stableSortByDate(s) ==
    IF s = <<>>
    THEN <<>>
    ELSE insertByDate(stableSortByDate(SubSeq(s, 1, Len(s) - 1)), s[Len(s)])

Reorder(s, n) ==
    {[i \in 1..n |-> s[p[i]]] :
        p \in {q \in [1..n -> 1..n] : \A i, j \in 1..n : i # j => q[i] # q[j]}}

Orderings(s) ==
    Reorder(s, Len(s))

\* entries.sort(comparator) of line 53: the arrays it can leave.  With a
\* consistent comparator the result is the stable sort; with an inconsistent
\* one (NaN keys among distinct dates) the order is implementation-defined.
sortEntries(entries) ==
    IF ConsistentComparator(entries)
    THEN {stableSortByDate(entries)}
    ELSE Orderings(entries)

\* The collation of String.prototype.localeCompare on the model's
\* characters: white space, punctuation, symbols, digits, then letters; a
\* letter's case counts only between strings that are otherwise equal, and
\* there lower case comes first.
PrimaryOrder ==
    <<" ", "\"", "&", "<", ">">> \o DigitChars \o LowerLetters

Primary(c) ==
    IndexOf(toLowerChar(c), PrimaryOrder)

RECURSIVE comparePrimary(_, _)
comparePrimary(a, b) ==
    IF a = <<>> /\ b = <<>> THEN 0
    ELSE IF a = <<>> THEN 0 - 1
    ELSE IF b = <<>> THEN 1
    ELSE IF Primary(Head(a)) < Primary(Head(b)) THEN 0 - 1
    ELSE IF Primary(Head(a)) > Primary(Head(b)) THEN 1
    ELSE comparePrimary(Tail(a), Tail(b))

RECURSIVE compareCase(_, _)
compareCase(a, b) ==
    IF a = <<>> \/ b = <<>> THEN 0
    ELSE IF Head(a) = Head(b) THEN compareCase(Tail(a), Tail(b))
    ELSE IF Head(a) = toLowerChar(Head(a)) THEN 0 - 1 ELSE 1

localeCompare(a, b) ==
    LET p == comparePrimary(a, b) IN IF p # 0 THEN p ELSE compareCase(a, b)

RECURSIVE firstSeen(_, _)
firstSeen(fileList, seen) ==
    IF fileList = <<>>
    THEN <<>>
    ELSE IF Head(fileList).category \in seen
         THEN firstSeen(Tail(fileList), seen)
         ELSE <<Head(fileList).category>>
              \o firstSeen(Tail(fileList), seen \cup {Head(fileList).category})

bucketsNamed(fileList, names) ==
    [i \in 1..Len(names) |->
        [name    |-> names[i],
         entries |-> SelectSeq(fileList, LAMBDA f : f.category = names[i])]]

\* Lines 44-49: the Map after the forEach, as [name, entries] in insertion
\* order.
buckets(fileList) ==
    bucketsNamed(fileList, firstSeen(fileList, {}))

\* Lines 52-54: the Maps the forEach over the buckets can leave.
RECURSIVE sortBuckets(_)
sortBuckets(b) ==
    IF b = <<>>
    THEN {<<>>}
    ELSE {<<[name |-> Head(b).name, entries |-> e]>> \o rest :
             e \in sortEntries(Head(b).entries), rest \in sortBuckets(Tail(b))}

RECURSIVE insertByName(_, _)
insertByName(sorted, x) ==
    IF sorted = <<>>
    THEN <<x>>
    ELSE IF localeCompare(Head(sorted).name, x.name) > 0
         THEN <<x>> \o sorted
         ELSE <<Head(sorted)>> \o insertByName(Tail(sorted), x)

\* Line 57: [...map.entries()].sort((a, b) => a[0].localeCompare(b[0])).
RECURSIVE sortByName(_)
sortByName(entries) ==
    IF entries = <<>>
    THEN <<>>
    ELSE insertByName(sortByName(SubSeq(entries, 1, Len(entries) - 1)),
                      entries[Len(entries)])

\* groupByCategory(fileList): the Maps it can return, each a sequence of
\* [name, entries] in the Map's iteration order.
groupByCategory(fileList) ==
    {sortByName(m) : m \in sortBuckets(buckets(fileList))}

(***************************************************************************)
(* Search.                                                                 *)
(***************************************************************************)
matches_TitleOnly(f, q) ==
    includes(toLowerCase(f.title), q)

\* The predicate of lines 131-134.
matches(f, q) ==
    \/ includes(toLowerCase(f.title), q)
    \/ includes(toLowerCase(f.description), q)
    \/ includes(toLowerCase(f.category), q)

filterBy(list, q) ==
    SelectSeq(list, LAMBDA f : matches(f, q))

\* filterFiles(query), lines 127-136.
filterFiles(query) ==
    IF query = <<>> THEN files ELSE filterBy(files, toLowerCase(query))

\* The identity of the array filterFiles returns: `files` itself on the
\* empty query, a new array otherwise.
filterRef(query) ==
    IF query = <<>> THEN "files" ELSE "filtered"

(***************************************************************************)
(* Rendering.  A template literal is a sequence of pieces: its literal     *)
(* parts and the values substituted into it, each tagged with the          *)
(* expression it comes from.                                               *)
(***************************************************************************)
Lit(s) ==
    [kind |-> "lit", src |-> s, text |-> <<>>]

Hole(e, t) ==
    [kind |-> "hole", src |-> e, text |-> t]

CardOpen ==
    Lit("<a class=\"card\" href=\"")

\* renderCard(f), lines 63-80.
renderCard(f) ==
    <<CardOpen,
      Hole("f.file", escHtml(f.file)),
      Lit("\" target=\"_blank\" rel=\"noopener noreferrer\" aria-label=\"Open "),
      Hole("f.title", escHtml(f.title)),
      Lit("\"><div class=\"card-body\"><p class=\"card-title\">"),
      Hole("f.title", escHtml(f.title)),
      Lit("</p><p class=\"card-desc\">"),
      Hole("f.description", escHtml(f.description)),
      Lit("</p></div><time class=\"card-date\" datetime=\""),
      Hole("f.updated", escHtml(f.updated)),
      Lit("\">"),
      Hole("formatDate(f.updated)", formatDate(f.updated)),
      Lit("</time></a>")>>

\* entries.map(renderCard).join("\n")
RECURSIVE joinCards(_)
joinCards(entries) ==
    IF entries = <<>> THEN <<>>
    ELSE IF Len(entries) = 1 THEN renderCard(entries[1])
    ELSE renderCard(Head(entries)) \o <<Lit("\n")>> \o joinCards(Tail(entries))

\* renderCategory(categoryName, entries), lines 83-92.
renderCategory(categoryName, entries) ==
    <<Lit("<section class=\"category\" aria-labelledby=\"cat-"),
      Hole("categoryName", escHtml(categoryName)),
      Lit("\"><h2 class=\"category-title\" id=\"cat-"),
      Hole("categoryName", escHtml(categoryName)),
      Lit("\">"),
      Hole("categoryName", escHtml(categoryName)),
      Lit("</h2><div class=\"card-list\">")>>
    \o joinCards(entries)
    \o <<Lit("</div></section>")>>

\* Lines 104-107: html after grouped.forEach.
RECURSIVE renderGroups(_)
renderGroups(g) ==
    IF g = <<>>
    THEN <<>>
    ELSE renderCategory(Head(g).name, Head(g).entries) \o renderGroups(Tail(g))

EmptyState ==
    <<Lit("<p class=\"empty-state\">No documents found.</p>")>>

StartsWith(s, e) ==
    Len(s) >= Len(e) /\ SubSeq(s, 1, Len(e)) = e

Drop(s, e) ==
    SubSeq(s, Len(e) + 1, Len(s))

\* The HTML parser's decoding of the character references escHtml writes.
RECURSIVE decodeHtml(_)
decodeHtml(s) ==
    IF s = <<>> THEN <<>>
    ELSE IF StartsWith(s, AmpEntity) THEN <<"&">> \o decodeHtml(Drop(s, AmpEntity))
    ELSE IF StartsWith(s, LtEntity) THEN <<"<">> \o decodeHtml(Drop(s, LtEntity))
    ELSE IF StartsWith(s, GtEntity) THEN <<">">> \o decodeHtml(Drop(s, GtEntity))
    ELSE IF StartsWith(s, QuotEntity)
         THEN <<"\"">> \o decodeHtml(Drop(s, QuotEntity))
    ELSE <<Head(s)>> \o decodeHtml(Tail(s))

NoDelay ==
    0 - 1

cardAt(html, i) ==
    [href           |-> decodeHtml(html[i + 1].text),
     ariaLabel      |-> decodeHtml(html[i + 3].text),
     title          |-> decodeHtml(html[i + 5].text),
     desc           |-> decodeHtml(html[i + 7].text),
     datetime       |-> decodeHtml(html[i + 9].text),
     dateText       |-> decodeHtml(html[i + 11].text),
     visible        |-> FALSE,
     animationDelay |-> NoDelay]

cardsAt(html, at) ==
    [k \in 1..Len(at) |-> cardAt(html, at[k])]

\* app.querySelectorAll(".card") on freshly parsed markup: one element per
\* card template, its attributes and texts decoded, no inline style and no
\* card--visible class yet.
parseCards(html) ==
    cardsAt(html,
            SelectSeq([i \in 1..Len(html) |-> i], LAMBDA i : html[i] = CardOpen))

setInnerHTML_Append(old, html) ==
    old \o html

\* The assignment to app.innerHTML (lines 100 and 109): the container's
\* markup after it.
setInnerHTML(old, html) ==
    html

sortedInPlace_Input(ref) ==
    {ref}

\* The arrays line 53 sorts in place when groupByCategory is given the
\* array `ref`: the bucket arrays line 47 creates, never `ref`.
sortedInPlace(ref) ==
    {"bucket"}

StaggerMs ==
    40

staggerDelay_OneBased(i) ==
    i * StaggerMs

\* Line 115: `${i * 40}ms` for the card of zero-based index i; the model's
\* sequences count from 1.
staggerDelay(i) ==
    (i - 1) * StaggerMs

markupOf(g) ==
    IF g = <<>> THEN EmptyState ELSE renderGroups(g)

\* Lines 99-118 for the grouping g.
mount(g) ==
    IF ~hasApp
    THEN /\ threw' = TRUE
         /\ UNCHANGED <<appHtml, cards, rafPending>>
    ELSE /\ threw' = threw
         /\ appHtml' = setInnerHTML(appHtml, markupOf(g))
         /\ cards' = parseCards(appHtml')
         /\ rafPending' = IF g = <<>> THEN rafPending ELSE rafPending + 1

\* renderAll(fileList), lines 95-119, where `ref` is the array fileList is.
renderAll(fileList, ref) ==
    /\ grouped' \in groupByCategory(fileList)
    /\ renderCount' = renderCount + 1
    /\ lastList' = fileList
    /\ firstList' = IF renderCount = 0 THEN fileList ELSE firstList
    /\ IF "files" \in sortedInPlace(ref)
       THEN files' \in sortEntries(files)
       ELSE files' = files
    /\ mount(grouped')

(***************************************************************************)
(* Inputs.                                                                 *)
(***************************************************************************)
Rec(c, t, d, f, u) ==
    [category |-> c, title |-> t, description |-> d, file |-> f, updated |-> u]

\* The records the `files` array is drawn from: two categories whose
\* collation order ("a" before "B") differs from their code-unit order,
\* markup characters in the fields, two equal dates, and one `updated` text
\* that is no date.
OlderB ==
    Rec(<<"B">>, <<"X", "<">>, <<"p", "y">>, <<"f", "&">>,
        <<"2", "0", "2", "4", "-", "0", "1", "-", "0", "1">>)

NewerB ==
    Rec(<<"B">>, <<"y">>, <<"A", "b", "\"">>, <<"g">>,
        <<"2", "0", "2", "5", "-", "0", "1", "-", "0", "1">>)

OnlyA ==
    Rec(<<"a">>, <<"Z", ">">>, <<>>, <<"h">>,
        <<"2", "0", "2", "4", "-", "0", "6", "-", "0", "1">>)

UndatedB ==
    Rec(<<"B">>, <<"a", " ", "b">>, <<"q">>, <<"k">>, <<"x", "<", "1">>)

TiedB ==
    Rec(<<"B">>, <<"w">>, <<>>, <<"m">>,
        <<"2", "0", "2", "4", "-", "0", "1", "-", "0", "1">>)

Pool ==
    {OlderB, NewerB, OnlyA, UndatedB, TiedB}

ListsUpTo(n) ==
    UNION {[1..k -> Pool] : k \in 0..n}

\* The records of the page-level specification: one of each category, in
\* an order that neither the date sort nor the category sort keeps.
StorePool ==
    {OlderB, OnlyA}

StoresUpTo(n) ==
    UNION {[1..k -> StorePool] : k \in 0..n}

\* Arguments of filterFiles in the function-level specification.
QueryTexts ==
    { <<>>, <<"b">>, <<"a">>, <<"Y">>, <<"P", "Y">>, <<" ">>, <<" ", "b">>,
      <<"<">>, <<"z", "z">> }

\* Texts typed into the search box.
InputValues ==
    { <<>>, <<" ", " ", " ">>, <<" ", "Y", " ">> }

DebounceMs ==
    150

TimeStep ==
    DebounceMs \div 3

MaxTime ==
    MaxTicks * TimeStep

NoTimer ==
    0 - 1

(***************************************************************************)
(* The page.                                                               *)
(***************************************************************************)
InitWith(stores) ==
    /\ files \in stores
    /\ hasApp \in BOOLEAN
    /\ hasSearch \in BOOLEAN
    /\ readyState = "loading"
    /\ scriptRan = FALSE
    /\ domListener = FALSE
    /\ initCount = 0
    /\ searchBound = FALSE
    /\ threw = FALSE
    /\ now = 0
    /\ timers = {}
    /\ debounceTimer = NoTimer
    /\ inputValue = <<>>
    /\ inputTimes = <<>>
    /\ renderTimes = <<>>
    /\ renderCount = 0
    /\ firstList = <<>>
    /\ lastSource = "none"
    /\ lastValue = <<>>
    /\ lastQuery = <<>>
    /\ lastList = <<>>
    /\ grouped = <<>>
    /\ appHtml = <<>>
    /\ cards = <<>>
    /\ rafPending = 0

Init ==
    InitWith(StoresUpTo(MaxStore))

timeVars ==
    <<now, timers, debounceTimer, inputValue, inputTimes, renderTimes>>

bootVars ==
    <<hasApp, hasSearch, readyState, scriptRan, domListener, initCount,
      searchBound>>

renderVars ==
    <<files, threw, renderCount, firstList, lastList, grouped, appHtml, cards,
      rafPending>>

\* init(), lines 157-160: renderAll(files), then initSearch() (lines
\* 139-153), which attaches the listener when #search exists.  A TypeError
\* of renderAll ends init before initSearch.
init ==
    /\ initCount' = initCount + 1
    /\ renderAll(files, "files")
    /\ lastSource' = "init"
    /\ searchBound' = IF hasApp THEN hasSearch ELSE searchBound
    /\ UNCHANGED <<lastValue, lastQuery>>

shouldDefer_Never(state) ==
    FALSE

\* Line 162: document.readyState === "loading".
shouldDefer(state) ==
    state = "loading"

\* The evaluation of script.js, lines 162-166.
RunScript ==
    /\ ~scriptRan
    /\ scriptRan' = TRUE
    /\ IF shouldDefer(readyState)
       THEN /\ domListener' = TRUE
            /\ UNCHANGED <<initCount, searchBound, lastSource, lastValue,
                           lastQuery>>
            /\ UNCHANGED renderVars
       ELSE /\ init
            /\ UNCHANGED domListener
    /\ UNCHANGED <<hasApp, hasSearch, readyState>>
    /\ UNCHANGED timeVars

\* The document finishes parsing: readyState leaves "loading" and the
\* DOMContentLoaded listeners run.
DOMContentLoaded ==
    /\ readyState = "loading"
    /\ readyState' = "interactive"
    /\ IF domListener
       THEN init
       ELSE /\ UNCHANGED <<initCount, searchBound, lastSource, lastValue,
                           lastQuery>>
            /\ UNCHANGED renderVars
    /\ UNCHANGED <<hasApp, hasSearch, scriptRan, domListener>>
    /\ UNCHANGED timeVars

clearTimeout_Noop(pending, handle) ==
    pending

\* clearTimeout(debounceTimer), line 146.
clearTimeout(pending, handle) ==
    pending \ {handle}

\* The "input" listener, lines 145-152, on an event that leaves `v` in the
\* box.
InputEvent ==
    /\ searchBound
    /\ Len(inputTimes) < MaxInputs
    /\ \E v \in InputValues :
          inputValue' = v
    /\ timers' = clearTimeout(timers, debounceTimer) \cup {now + DebounceMs}
    /\ debounceTimer' = now + DebounceMs
    /\ inputTimes' = Append(inputTimes, now)
    /\ UNCHANGED <<now, renderTimes, lastSource, lastValue, lastQuery>>
    /\ UNCHANGED bootVars
    /\ UNCHANGED renderVars

\* The timer callback, lines 148-151, run when its delay has passed.
TimerFires ==
    /\ \E due \in timers :
          /\ due <= now
          /\ timers' = timers \ {due}
    /\ lastValue' = inputValue
    /\ lastQuery' = trim(inputValue)
    /\ renderAll(filterFiles(lastQuery'), filterRef(lastQuery'))
    /\ lastSource' = "timer"
    /\ renderTimes' = Append(renderTimes, now)
    /\ UNCHANGED <<now, debounceTimer, inputValue, inputTimes>>
    /\ UNCHANGED bootVars

\* Time passes, never beyond a pending timer's due time.  The clock stands
\* still while no timer is pending: idle time changes nothing.
Tick ==
    /\ searchBound
    /\ now < MaxTime
    /\ timers # {}
    /\ \A due \in timers : due > now
    /\ now' = now + TimeStep
    /\ UNCHANGED <<timers, debounceTimer, inputValue, inputTimes, renderTimes>>
    /\ UNCHANGED <<lastSource, lastValue, lastQuery>>
    /\ UNCHANGED bootVars
    /\ UNCHANGED renderVars

\* The next frame: the pending requestAnimationFrame callbacks (lines
\* 112-118) run, each over the cards then in #app.
AnimationFrame ==
    /\ rafPending > 0
    /\ rafPending' = 0
    /\ cards' = [i \in 1..Len(cards) |->
                    [cards[i] EXCEPT !.visible = TRUE,
                                     !.animationDelay = staggerDelay(i)]]
    /\ UNCHANGED <<files, threw, renderCount, firstList, lastList, grouped,
                   appHtml>>
    /\ UNCHANGED <<lastSource, lastValue, lastQuery>>
    /\ UNCHANGED bootVars
    /\ UNCHANGED timeVars

Next ==
    \/ RunScript
    \/ DOMContentLoaded
    \/ InputEvent
    \/ TimerFires
    \/ Tick
    \/ AnimationFrame

Spec ==
    Init /\ [][Next]_vars

\* A frame is eventually painted while callbacks are pending.
FairSpec ==
    Init /\ [][Next]_vars /\ WF_vars(AnimationFrame)

(***************************************************************************)
(* The pipeline alone: filterFiles and renderAll applied to any query.     *)
(***************************************************************************)
FuncInit ==
    /\ InitWith(ListsUpTo(MaxLen))
    /\ hasApp
    /\ hasSearch

\* filterFiles(q) followed by renderAll, as in lines 149-150, for a query
\* `q` of any shape.
ApplyQuery ==
    /\ renderCount = 0
    /\ \E q \in QueryTexts :
          /\ lastQuery' = q
          /\ lastValue' = q
    /\ renderAll(filterFiles(lastQuery'), filterRef(lastQuery'))
    /\ lastSource' = "direct"
    /\ UNCHANGED bootVars
    /\ UNCHANGED timeVars

FuncNext ==
    \/ ApplyQuery
    \/ AnimationFrame

FuncSpec ==
    FuncInit /\ [][FuncNext]_vars

(***************************************************************************)
(* Properties.                                                             *)
(***************************************************************************)
Last(s) ==
    s[Len(s)]

Blank(v) ==
    \A i \in 1..Len(v) : v[i] = " "

\* q is v without its leading and trailing white space.
TrimmedFrom(q, v) ==
    \E i \in 1..(Len(v) + 1) :
        /\ i + Len(q) - 1 <= Len(v)
        /\ q = SubSeq(v, i, i + Len(q) - 1)
        /\ \A k \in 1..Len(v) : (k < i \/ k > i + Len(q) - 1) => v[k] = " "
        /\ q # <<>> => (q[1] # " " /\ q[Len(q)] # " ")

SameLetter(a, b) ==
    \/ a = b
    \/ \E k \in 1..Len(LowerLetters) :
          {a, b} = {LowerLetters[k], UpperLetters[k]}

ContainsIgnoringCase(s, q) ==
    \E i \in 0..(Len(s) - Len(q)) :
        \A j \in 1..Len(q) : SameLetter(s[i + j], q[j])

Found(f, q) ==
    \/ ContainsIgnoringCase(f.title, q)
    \/ ContainsIgnoringCase(f.description, q)
    \/ ContainsIgnoringCase(f.category, q)

Occurrences(list, f) ==
    Cardinality({i \in 1..Len(list) : list[i] = f})

ShowsRecord(card, f) ==
    /\ card.href = f.file
    /\ card.ariaLabel = f.title
    /\ card.title = f.title
    /\ card.desc = f.description
    /\ card.datetime = f.updated

CardsShowing(f) ==
    Cardinality({k \in 1..Len(cards) : ShowsRecord(cards[k], f)})

Placeholder ==
    <<[kind |-> "lit",
       src  |-> "<p class=\"empty-state\">No documents found.</p>",
       text |-> <<>>]>>

MarkupSafe(t) ==
    \A i \in 1..Len(t) :
        /\ t[i] \notin {"<", ">", "\""}
        /\ t[i] = "&" =>
              \E e \in {AmpEntity, LtEntity, GtEntity, QuotEntity} :
                  /\ i + Len(e) - 1 <= Len(t)
                  /\ SubSeq(t, i, i + Len(e) - 1) = e

\* C1: a timer callback renders only 150 ms after an input event with no
\* input event in between, at most once per event; once no timer is pending
\* the last render is the one 150 ms after the last event (events at 0, 50
\* and 100 ms: one render, at 250 ms); and the render filters by the trimmed
\* value the box holds when the timer fires.
C1_Debounce ==
    /\ \A k \in 1..Len(renderTimes) :
          /\ \E j \in 1..Len(inputTimes) : inputTimes[j] = renderTimes[k] - 150
          /\ \A j \in 1..Len(inputTimes) :
                ~(renderTimes[k] - 150 < inputTimes[j]
                  /\ inputTimes[j] < renderTimes[k])
          /\ \A m \in 1..Len(renderTimes) :
                m # k => renderTimes[m] # renderTimes[k]
    /\ (timers = {} /\ inputTimes # <<>>) =>
          /\ renderTimes # <<>>
          /\ Last(renderTimes) = Last(inputTimes) + 150
          /\ lastValue = inputValue
    /\ (inputTimes = <<0, 50, 100>> /\ timers = {}) => renderTimes = <<250>>
    /\ lastSource = "timer" => TrimmedFrom(lastQuery, lastValue)

C1_Witness ==
    /\ inputTimes = <<0, 50, 100>>
    /\ renderTimes = <<250>>
    /\ lastSource = "timer"
    /\ lastValue = <<" ", "Y", " ">>
    /\ lastQuery = <<"Y">>

\* C2: the categories of a grouping ascend in collation order; within a
\* category the records with a date never put an older one before a newer
\* one; every record of the list is in the bucket of its category, as often
\* as it is in the list.
C2_GroupOrder ==
    renderCount > 0 =>
        /\ \A i \in 1..(Len(grouped) - 1) :
              localeCompare(grouped[i].name, grouped[i + 1].name) < 0
        /\ \A b \in 1..Len(grouped) :
              \A i, j \in 1..Len(grouped[b].entries) :
                  (/\ i < j
                   /\ ParseDate(grouped[b].entries[i].updated).valid
                   /\ ParseDate(grouped[b].entries[j].updated).valid)
                  => dateValue(grouped[b].entries[i].updated).val
                        >= dateValue(grouped[b].entries[j].updated).val
        /\ \A b \in 1..Len(grouped) :
              \A i \in 1..Len(grouped[b].entries) :
                  grouped[b].entries[i].category = grouped[b].name
        /\ \A f \in Pool :
              Occurrences(lastList, f)
                 = Cardinality({<<b, i>> \in (1..Len(grouped)) \X (1..Len(lastList)) :
                                   /\ i <= Len(grouped[b].entries)
                                   /\ grouped[b].entries[i] = f})

\* C3: filterFiles returns exactly the records whose title, description or
\* category contains the query ignoring case, in the order of the list, and
\* never more records than the list has.
C3_Filter ==
    lastSource = "direct" =>
        /\ lastList = SelectSeq(files, LAMBDA f : Found(f, lastQuery))
        /\ Len(lastList) <= Len(files)

C3_Witness ==
    /\ lastSource = "direct"
    /\ lastQuery = <<"Y">>
    /\ Len(files) = 3
    /\ Len(lastList) = 2
    /\ lastList[1] = OlderB
    /\ lastList[2] = NewerB

\* C4: a search whose box is empty or holds only white space renders the
\* whole `files` list, in its order.
C4_BlankQuery ==
    (lastSource = "timer" /\ Blank(lastValue)) =>
        /\ lastList = files
        /\ Len(cards) = Len(files)

C4_Witness ==
    /\ lastSource = "timer"
    /\ lastValue = <<" ", " ", " ">>
    /\ Len(files) = 2
    /\ lastList = files

\* C5: after any render the container holds the cards of that render's list
\* and no other; after a render of an empty list it holds exactly the
\* placeholder.
C5_RenderReplaces ==
    (renderCount > 0 /\ hasApp) =>
        /\ lastList = <<>> => (appHtml = Placeholder /\ cards = <<>>)
        /\ Len(cards) = Len(lastList)
        /\ \A f \in Pool : CardsShowing(f) = Occurrences(lastList, f)

C5_Witness ==
    /\ renderCount >= 2
    /\ firstList # <<>>
    /\ lastList = <<>>
    /\ appHtml = Placeholder
    /\ rafPending > 0

\* C6: every value substituted into the markup is free of raw <, > and "
\* and holds & only as the start of a character reference, and the parsed
\* cards and headings show the records' fields unchanged.
C6_Escaped ==
    (renderCount > 0 /\ hasApp) =>
        /\ \A i \in 1..Len(appHtml) :
              appHtml[i].kind = "hole" => MarkupSafe(appHtml[i].text)
        /\ \A i \in 1..Len(appHtml) :
              appHtml[i].src = "categoryName" =>
                  \E b \in 1..Len(grouped) :
                      decodeHtml(appHtml[i].text) = grouped[b].name
        /\ \A k \in 1..Len(cards) :
              \E i \in 1..Len(lastList) : ShowsRecord(cards[k], lastList[i])

C6_Witness ==
    /\ lastSource = "direct"
    /\ \E k \in 1..Len(cards) : cards[k].title = <<"X", "<">>
    /\ \E i \in 1..Len(appHtml) :
          /\ appHtml[i].src = "f.title"
          /\ appHtml[i].text = <<"X", "&", "l", "t", ";">>

\* C7: rendering a list with a record whose `updated` is no date does not
\* throw, shows the record as a card, and the card's date is the raw
\* `updated` text.
C7_MalformedDate ==
    renderCount > 0 =>
        /\ ~threw
        /\ \A i \in 1..Len(lastList) :
              ~ParseDate(lastList[i].updated).valid =>
                  \E k \in 1..Len(cards) :
                      /\ ShowsRecord(cards[k], lastList[i])
                      /\ cards[k].dateText = lastList[i].updated

\* C8: init runs at most once, and exactly once when the script has run and
\* the document is no longer loading; while the document is loading nothing
\* is rendered and no listener is attached; the first render is of the whole
\* `files` list; the search listener is attached only after that render.
C8_Bootstrap ==
    /\ initCount <= 1
    /\ (scriptRan /\ readyState # "loading") => initCount = 1
    /\ (readyState = "loading" \/ ~scriptRan) =>
          (initCount = 0 /\ renderCount = 0 /\ ~searchBound)
    /\ renderCount > 0 => (firstList = files /\ initCount = 1)
    /\ searchBound => (renderCount > 0 /\ ~threw)
    /\ (initCount = 1 /\ hasApp) => searchBound = hasSearch

C8_Witness ==
    /\ domListener
    /\ readyState = "interactive"
    /\ initCount = 1
    /\ searchBound
    /\ Len(files) = 2
    /\ firstList = files
    /\ renderCount = 1

\* C9: no step changes the `files` array.
C9_StoreUnchanged ==
    [][files' = files]_vars

C9_Witness ==
    /\ lastSource = "timer"
    /\ lastQuery = <<>>
    /\ files = <<OlderB, OnlyA>>
    /\ Len(grouped) = 2
    /\ grouped[1].entries = <<OnlyA>>
    /\ grouped[2].entries = <<OlderB>>

\* C10: a render of a non-empty grouping schedules one animation callback
\* and any other render none; a pending callback eventually runs; and once
\* none is pending every card in the container is visible with a delay of
\* 40 ms times its zero-based index in the whole card list.
C10_Stagger ==
    /\ [](rafPending = 0 =>
            \A i \in 1..Len(cards) :
                /\ cards[i].visible
                /\ cards[i].animationDelay = (i - 1) * 40)
    /\ [][renderCount' # renderCount =>
            rafPending' = rafPending
                          + (IF hasApp /\ grouped' # <<>> THEN 1 ELSE 0)]_vars
    /\ (rafPending > 0 ~> rafPending = 0)

C10_Witness ==
    /\ rafPending = 0
    /\ Len(grouped) = 2
    /\ Len(cards) = 2
    /\ cards[2].visible
    /\ cards[2].animationDelay = 40

====
